---------------------------- MODULE Spec2Model ----------------------------
(***************************************************************************)
(* Gesture-driven interaction state machine of the holo-tree view          *)
(* (components/MarsParticles.tsx) and the geometric gesture classifier     *)
(* (utils/gestureUtils.ts).                                                *)
(*                                                                         *)
(* Numbers.  Camera-space lengths (landmark coordinates, pinchDist,        *)
(* handNdc) are integers counting 1/300 of the source's unit, so that      *)
(* 0.04 = 12, 0.05 = 15, 0.06 = 18, 0.08 = 24, 0.25 = 75 and 0.3 = 90 are  *)
(* exact.  treeScale counts 1/10000, angles count 1/300 rad.  The easing   *)
(* steps (x += (t - x) * k) are computed in that fixed point and rounded   *)
(* toward zero.                                                            *)
(*                                                                         *)
(* Scheduling.  requestAnimationFrame callbacks are kept in two lists:     *)
(* rafRunning (the callbacks of the frame being run, in registration       *)
(* order) and rafPending (those registered for the next frame).  The       *)
(* detector's onResults callback runs between any two callbacks.           *)
(***************************************************************************)
EXTENDS Integers, Sequences, FiniteSets, TLC

(* ------------------------------ bounds -------------------------------- *)

\* photos created before the session starts (createPhotoMesh calls)
NumPhotos == 2
\* return-to-tree loops that may be in flight at once
MaxLoops == 1
\* photos created in the specifications that follow a refocused photo or a
\* moving tree
FewPhotos == 1
\* the specification of the moving tree follows the tree while targetRotY is
\* within MaxRot of 0 and treeScale is at most MaxScale
MaxRot == 12
MaxScale == 10250

None == 0
Photos == 1..NumPhotos

(* --------------------------- program constants ------------------------ *)

\* MarsParticles.tsx:17  FLICK_THRESHOLD = 0.08
FLICK_THRESHOLD == 24
\* MarsParticles.tsx:18  PINCH_THRESHOLD = 0.06
PINCH_THRESHOLD == 18
\* gestureUtils.ts:56  pinchDist < 0.04, squared: 12 * 12
GESTURE_PINCH_SQ == 144
\* MarsParticles.tsx:172  treeScale: 1.0
INITIAL_SCALE == 10000
\* MarsParticles.tsx:617,629  p += 0.05 ... p < 1: the 20th sum is
\* 1.0000000000000002, the first that is not < 1
RETURN_STEPS == 20

\* gestureUtils.ts:19-30, as positions in a 1-based sequence
WRIST == 1
THUMB_IP == 4
THUMB_TIP == 5
INDEX_PIP == 7
INDEX_TIP == 9
MIDDLE_PIP == 11
MIDDLE_TIP == 13
RING_PIP == 15
RING_TIP == 17
PINKY_PIP == 19
PINKY_TIP == 21

(* ------------------------------ arithmetic ---------------------------- *)

\* x / d rounded toward zero
TruncDiv(x, d) == IF x >= 0 THEN x \div d ELSE -((-x) \div d)

Min(a, b) == IF a < b THEN a ELSE b
Max(a, b) == IF a > b THEN a ELSE b

\* Math.sqrt on the fixed-point grid: the largest r with r * r <= n
RECURSIVE SqrtFrom(_, _)
SqrtFrom(n, r) == IF (r + 1) * (r + 1) > n THEN r ELSE SqrtFrom(n, r + 1)
Sqrt(n) == SqrtFrom(n, 0)

\* (p1.x - p2.x)^2 + (p1.y - p2.y)^2, the radicand of distance()
distanceSq(p1, p2) ==
    (p1[1] - p2[1]) * (p1[1] - p2[1]) + (p1[2] - p2[2]) * (p1[2] - p2[2])


(* ------------------- gestureUtils.ts: the classifier ------------------ *)

\* A landmark is <<x, y>>; a frame is a sequence of landmarks, landmark k of
\* the source at position k + 1.  NoFrame stands for a null / undefined
\* argument: no landmark has a negative coordinate.
NoFrame == << <<-1, -1>> >>

\* isFingerExtended: distance(wrist, tip) > distance(wrist, pip).  Math.sqrt
\* is strictly increasing on the grid's radicands, so the radicands are
\* compared.
isFingerExtended(landmarks, tipIdx, pipIdx) ==
    distanceSq(landmarks[WRIST], landmarks[tipIdx])
        > distanceSq(landmarks[WRIST], landmarks[pipIdx])

\* detectGesture with the FIST test ahead of the PINCH test
detectGestureFistFirst(landmarks) ==
    IF landmarks = NoFrame \/ Len(landmarks) < 21 THEN "NONE"
    ELSE LET indexExtended == isFingerExtended(landmarks, INDEX_TIP, INDEX_PIP)
             middleExtended == isFingerExtended(landmarks, MIDDLE_TIP, MIDDLE_PIP)
             ringExtended == isFingerExtended(landmarks, RING_TIP, RING_PIP)
             pinkyExtended == isFingerExtended(landmarks, PINKY_TIP, PINKY_PIP)
         IN  IF ~indexExtended /\ ~middleExtended /\ ~ringExtended /\ ~pinkyExtended
             THEN "FIST"
             ELSE IF distanceSq(landmarks[THUMB_TIP], landmarks[INDEX_TIP])
                        < GESTURE_PINCH_SQ
             THEN "PINCH"
             ELSE "NONE"

\* detectGesture with the PINCH test ahead of the length guard
detectGesturePinchUnguarded(landmarks) ==
    IF landmarks # NoFrame /\ Len(landmarks) > INDEX_TIP - 1
          /\ distanceSq(landmarks[THUMB_TIP], landmarks[INDEX_TIP]) < GESTURE_PINCH_SQ
    THEN "PINCH"
    ELSE IF landmarks = NoFrame \/ Len(landmarks) < 21 THEN "NONE"
    ELSE LET indexExtended == isFingerExtended(landmarks, INDEX_TIP, INDEX_PIP)
             middleExtended == isFingerExtended(landmarks, MIDDLE_TIP, MIDDLE_PIP)
             ringExtended == isFingerExtended(landmarks, RING_TIP, RING_PIP)
             pinkyExtended == isFingerExtended(landmarks, PINKY_TIP, PINKY_PIP)
         IN  IF ~indexExtended /\ ~middleExtended /\ ~ringExtended /\ ~pinkyExtended
             THEN "FIST"
             ELSE IF indexExtended /\ ~middleExtended /\ ~ringExtended /\ ~pinkyExtended
             THEN "POINTING"
             ELSE IF indexExtended /\ middleExtended /\ ringExtended /\ pinkyExtended
             THEN "OPEN_PALM"
             ELSE "NONE"

\* detectGesture with the THUMB_UP test ahead of the FIST test
detectGestureThumbUpFirst(landmarks) ==
    IF landmarks = NoFrame \/ Len(landmarks) < 21 THEN "NONE"
    ELSE LET thumbExtended == isFingerExtended(landmarks, THUMB_TIP, THUMB_IP)
             indexExtended == isFingerExtended(landmarks, INDEX_TIP, INDEX_PIP)
             middleExtended == isFingerExtended(landmarks, MIDDLE_TIP, MIDDLE_PIP)
             ringExtended == isFingerExtended(landmarks, RING_TIP, RING_PIP)
             pinkyExtended == isFingerExtended(landmarks, PINKY_TIP, PINKY_PIP)
             pinchDistSq == distanceSq(landmarks[THUMB_TIP], landmarks[INDEX_TIP])
         IN  IF pinchDistSq < GESTURE_PINCH_SQ THEN "PINCH"
             ELSE IF thumbExtended /\ ~indexExtended /\ ~middleExtended
                        /\ ~ringExtended /\ ~pinkyExtended
             THEN "THUMB_UP"
             ELSE IF ~indexExtended /\ ~middleExtended /\ ~ringExtended /\ ~pinkyExtended
             THEN "FIST"
             ELSE IF indexExtended /\ ~middleExtended /\ ~ringExtended /\ ~pinkyExtended
             THEN "POINTING"
             ELSE IF indexExtended /\ middleExtended /\ ringExtended /\ pinkyExtended
             THEN "OPEN_PALM"
             ELSE "NONE"

detectGesture(landmarks) ==
    IF landmarks = NoFrame \/ Len(landmarks) < 21 THEN "NONE"
    ELSE LET thumbExtended == isFingerExtended(landmarks, THUMB_TIP, THUMB_IP)
             indexExtended == isFingerExtended(landmarks, INDEX_TIP, INDEX_PIP)
             middleExtended == isFingerExtended(landmarks, MIDDLE_TIP, MIDDLE_PIP)
             ringExtended == isFingerExtended(landmarks, RING_TIP, RING_PIP)
             pinkyExtended == isFingerExtended(landmarks, PINKY_TIP, PINKY_PIP)
             pinchDistSq == distanceSq(landmarks[THUMB_TIP], landmarks[INDEX_TIP])
         IN  IF pinchDistSq < GESTURE_PINCH_SQ THEN "PINCH"
             ELSE IF ~indexExtended /\ ~middleExtended /\ ~ringExtended /\ ~pinkyExtended
             THEN "FIST"
             ELSE IF indexExtended /\ ~middleExtended /\ ~ringExtended /\ ~pinkyExtended
             THEN "POINTING"
             ELSE IF indexExtended /\ middleExtended /\ ringExtended /\ pinkyExtended
             THEN "OPEN_PALM"
             ELSE IF thumbExtended /\ ~indexExtended /\ ~middleExtended
                        /\ ~ringExtended /\ ~pinkyExtended
             THEN "THUMB_UP"
             ELSE "NONE"

(* ------------------------------- state -------------------------------- *)

VARIABLES
    \* state.current (MarsParticles.tsx:157-176)
    handNdc, prevHandNdc, pinchDist, prevPinchDist, isPinching, wasPinching,
    isHandDetected, viewingPhoto, hoveredPhoto, treeRotY, targetRotY, treeScale,
    \* sceneRefs.current.photos and each photo group's fields
    photos,        \* the registered photo groups
    parent,        \* photo -> "tree" | "scene": the group's scene-graph parent
    pose,          \* photo -> "original" | "moved": position/rotation equal
                   \*   to userData.originalPos/originalRot or not
    isReturning,   \* photo -> userData.isReturning
    borderVisible, \* photo -> visibility of the child named "border"
    dummies,       \* photo -> number of returnPhotoToTree dummy objects
                   \*   that are children of treeGroup
    \* rendering and React state
    statusText, cursorVisible,
    \* scheduler: requestAnimationFrame callbacks, each a record
    \* [fn, photo, p]; a "loop" record is a returnPhotoToTree closure with
    \* its photo and its progress p, in steps of 0.05
    rafRunning, rafPending,
    \* lifecycle: the effect's cleanup has run; an exception has left a callback
    cleanedUp, uncaught,
    \* the classifier's argument and result
    frame, gesture

vars == <<handNdc, prevHandNdc, pinchDist, prevPinchDist, isPinching, wasPinching,
          isHandDetected, viewingPhoto, hoveredPhoto, treeRotY, targetRotY,
          treeScale, photos, parent, pose, isReturning, borderVisible,
          dummies, statusText, cursorVisible, rafRunning, rafPending,
          cleanedUp, uncaught, frame, gesture>>

inputVars == <<handNdc, pinchDist, isHandDetected>>
historyVars == <<prevHandNdc, prevPinchDist, isPinching, wasPinching>>
focusVars == <<viewingPhoto, hoveredPhoto>>
treeVars == <<treeRotY, targetRotY, treeScale>>
photoVars == <<photos, parent, pose, isReturning, borderVisible, dummies>>
viewVars == <<statusText, cursorVisible>>
rafVars == <<rafRunning, rafPending>>
gestureVars == <<frame, gesture>>

animateCb == [fn |-> "animate", photo |-> None, p |-> 0]
\* loopCb whose progress does not advance
loopCbStuck(photo, p) == [fn |-> "loop", photo |-> photo, p |-> 1]
loopCb(photo, p) == [fn |-> "loop", photo |-> photo, p |-> p]

\* the returnPhotoToTree closures still scheduled
LoopsInFlight == SelectSeq(rafRunning \o rafPending, LAMBDA cb : cb.fn = "loop")
LoopsOf(photo) == SelectSeq(LoopsInFlight, LAMBDA cb : cb.photo = photo)

\* State after the mount effect (MarsParticles.tsx:316-707) has run: the
\* tree is built, animate is registered for the first frame, no photo has
\* been created yet.
Init ==
    /\ handNdc = <<0, 0>> /\ prevHandNdc = <<0, 0>>
    /\ pinchDist = 0 /\ prevPinchDist = 0
    /\ isPinching = FALSE /\ wasPinching = FALSE
    /\ isHandDetected = FALSE
    /\ viewingPhoto = None /\ hoveredPhoto = None
    /\ treeRotY = 0 /\ targetRotY = 0 /\ treeScale = INITIAL_SCALE
    /\ photos = {}
    /\ parent = [ph \in Photos |-> "tree"]
    /\ pose = [ph \in Photos |-> "original"]
    /\ isReturning = [ph \in Photos |-> FALSE]
    /\ borderVisible = [ph \in Photos |-> FALSE]
    /\ dummies = [ph \in Photos |-> 0]
    /\ statusText = "SYSTEM READY" /\ cursorVisible = TRUE
    /\ rafRunning = <<>> /\ rafPending = <<animateCb>>
    /\ cleanedUp = FALSE /\ uncaught = FALSE
    /\ frame = NoFrame /\ gesture = "NONE"

(* ------------------------- createPhotoMesh ---------------------------- *)

\* createPhotoMesh (MarsParticles.tsx:242-314): the photo with index
\* photoGlobalIndex joins treeGroup and the photos list, its border hidden,
\* originalPos/originalRot recorded from its pose, isReturning false.
createPhotoMesh ==
    /\ ~cleanedUp
    /\ Cardinality(photos) < NumPhotos
    /\ LET ph == Cardinality(photos) + 1
       IN  /\ photos' = photos \cup {ph}
           /\ parent' = [parent EXCEPT ![ph] = "tree"]
           /\ pose' = [pose EXCEPT ![ph] = "original"]
           /\ isReturning' = [isReturning EXCEPT ![ph] = FALSE]
           /\ borderVisible' = [borderVisible EXCEPT ![ph] = FALSE]
    /\ UNCHANGED <<inputVars, historyVars, focusVars, treeVars, dummies,
                   viewVars, rafVars, cleanedUp, uncaught, gestureVars>>

(* --------------------------- hands.onResults -------------------------- *)

\* A detector result: multiHandLandmarks, a sequence of frames.
NoHands == <<>>
\* a frame of n landmarks, thumb tip and index tip placed, the rest at the
\* image centre
HandFrame(n, thumb, index) ==
    [i \in 1..n |-> IF i = THUMB_TIP THEN thumb
                    ELSE IF i = INDEX_TIP THEN index ELSE <<150, 150>>]

\* hands.onResults (MarsParticles.tsx:656-675).  lm[4] or lm[8] of a frame
\* shorter than 9 is undefined and reading its .x throws a TypeError before
\* anything is assigned.
onResults(multiHandLandmarks) ==
    /\ ~cleanedUp
    /\ IF Len(multiHandLandmarks) > 0
       THEN LET lm == multiHandLandmarks[1]
            IN  IF Len(lm) < INDEX_TIP
                THEN /\ uncaught' = TRUE
                     /\ UNCHANGED inputVars
                ELSE LET thumb == lm[THUMB_TIP]
                         index == lm[INDEX_TIP]
                     IN  /\ pinchDist' = Sqrt(distanceSq(thumb, index))
                         /\ handNdc' = <<300 - (thumb[1] + index[1]),
                                         300 - (thumb[2] + index[2])>>
                         /\ isHandDetected' = TRUE
                         /\ UNCHANGED uncaught
       ELSE /\ isHandDetected' = FALSE
            /\ UNCHANGED <<handNdc, pinchDist, uncaught>>
    /\ UNCHANGED <<historyVars, focusVars, treeVars, photoVars, viewVars,
                   rafVars, cleanedUp, gestureVars>>

(* ------------------------ the frame scheduler ------------------------- *)

\* The browser runs the callbacks registered before the frame, in
\* registration order; callbacks registered while it does wait for the next
\* frame.
curRunning == IF rafRunning = <<>> THEN rafPending ELSE rafRunning
curPending == IF rafRunning = <<>> THEN <<>> ELSE rafPending

(* ------------------------------ animate ------------------------------- *)

\* targetScale without the clamp of the spread
targetScaleUnclamped(pd) == 5000 + (pd - 15) * 200

\* targetScale of the scale branch (MarsParticles.tsx:559-560):
\* 0.5 + min(1, max(0, (pinchDist - 0.05) / 0.25)) * 1.5
targetScale(pd) == 5000 + Min(75, Max(0, pd - 15)) * 200

\* ease adding the fraction of the target, not of the difference
easeAdditive(x, target, num, den) == x + TruncDiv(target * num, den)

\* x += (target - x) * num / den (MarsParticles.tsx:561, 573)
ease(x, target, num, den) == x + TruncDiv((target - x) * num, den)

\* Inputs (MarsParticles.tsx:459-462)
currentPinch == pinchDist < PINCH_THRESHOLD
\* justPinched without the previous frame's pinch state
justPinchedNoHistory == currentPinch
justPinched == currentPinch /\ ~wasPinching
\* pinchVelocity measured from 0, not from the previous frame
pinchVelocityFromZero == pinchDist
pinchVelocity == pinchDist - prevPinchDist

\* isFlick with the pinch test inverted
isFlickWhilePinching == currentPinch /\ pinchVelocity > FLICK_THRESHOLD

\* the flick test of the focused branch (MarsParticles.tsx:502)
isFlick == ~currentPinch /\ pinchVelocity > FLICK_THRESHOLD

\* returnPhotoToTree(photo) up to its first loop() call
\* (MarsParticles.tsx:598-614): focus cleared, isReturning set, the border
\* hidden, a dummy added to treeGroup
returnPhotoToTree(photo) ==
    /\ viewingPhoto' = None
    /\ isReturning' = [isReturning EXCEPT ![photo] = TRUE]
    /\ borderVisible' = [borderVisible EXCEPT ![photo] = FALSE]
    /\ dummies' = [dummies EXCEPT ![photo] = @ + 1]

\* viewingBranch with the tree still following the hand
viewingBranchTreeLive ==
    /\ IF isFlick
       THEN /\ returnPhotoToTree(viewingPhoto)
            /\ statusText' = "RETURNING..."
       ELSE /\ statusText' = "FLICK TO DISMISS"
            /\ UNCHANGED <<viewingPhoto, isReturning, borderVisible, dummies>>
    /\ pose' = [pose EXCEPT ![viewingPhoto] = "moved"]
    /\ IF currentPinch
       THEN /\ targetRotY' = targetRotY + (handNdc[1] - prevHandNdc[1]) * 4
            /\ UNCHANGED treeScale
       ELSE /\ treeScale' = ease(treeScale, targetScale(pinchDist), 8, 100)
            /\ UNCHANGED targetRotY
    /\ UNCHANGED <<hoveredPhoto, parent>>

\* A. VIEWING PHOTO (MarsParticles.tsx:499-516).  Both arms move the photo:
\* the first loop() call of the return, or the drag toward the view anchor.
viewingBranch ==
    /\ IF isFlick
       THEN /\ returnPhotoToTree(viewingPhoto)
            /\ statusText' = "RETURNING..."
       ELSE /\ statusText' = "FLICK TO DISMISS"
            /\ UNCHANGED <<viewingPhoto, isReturning, borderVisible, dummies>>
    /\ pose' = [pose EXCEPT ![viewingPhoto] = "moved"]
    /\ UNCHANGED <<hoveredPhoto, parent, targetRotY, treeScale>>

\* hoveringBranch without the unhover of the photo hovered before
hoveringBranchNoUnhover(hitPhoto) ==
    /\ hoveredPhoto' = hitPhoto
    /\ borderVisible' = [borderVisible EXCEPT ![hitPhoto] = TRUE]
    /\ IF justPinched
       THEN /\ viewingPhoto' = hitPhoto
            /\ parent' = [parent EXCEPT ![hitPhoto] = "scene"]
            /\ pose' = [pose EXCEPT ![hitPhoto] =
                          IF parent[hitPhoto] = "tree" THEN "moved" ELSE @]
            /\ statusText' = "OPENING..."
       ELSE /\ statusText' = "PINCH TO OPEN"
            /\ UNCHANGED <<viewingPhoto, parent, pose>>
    /\ UNCHANGED <<isReturning, dummies, targetRotY, treeScale>>

\* B. HOVERING PHOTO (MarsParticles.tsx:519-538).  scene.attach keeps the
\* world transform, so the local pose of a photo taken off the tree changes.
hoveringBranch(hitPhoto) ==
    /\ hoveredPhoto' = hitPhoto
    /\ borderVisible' =
         [ph \in Photos |->
            IF ph = hitPhoto THEN TRUE
            ELSE IF ph = hoveredPhoto THEN FALSE
            ELSE borderVisible[ph]]
    /\ IF justPinched
       THEN /\ viewingPhoto' = hitPhoto
            /\ parent' = [parent EXCEPT ![hitPhoto] = "scene"]
            /\ pose' = [pose EXCEPT ![hitPhoto] =
                          IF parent[hitPhoto] = "tree" THEN "moved" ELSE @]
            /\ statusText' = "OPENING..."
       ELSE /\ statusText' = "PINCH TO OPEN"
            /\ UNCHANGED <<viewingPhoto, parent, pose>>
    /\ UNCHANGED <<isReturning, dummies, targetRotY, treeScale>>

\* treeBranch rotating by the hand's position, not by its displacement
treeBranchNoDelta ==
    /\ hoveredPhoto' = None
    /\ borderVisible' =
         [ph \in Photos |-> IF ph = hoveredPhoto THEN FALSE ELSE borderVisible[ph]]
    /\ IF currentPinch
       THEN /\ targetRotY' = targetRotY + handNdc[1] * 4
            /\ statusText' = "ROTATING TREE"
            /\ UNCHANGED treeScale
       ELSE /\ treeScale' = ease(treeScale, targetScale(pinchDist), 8, 100)
            /\ statusText' = "PINCH AIR TO ROTATE"
            /\ UNCHANGED targetRotY
    /\ UNCHANGED <<viewingPhoto, parent, pose, isReturning, dummies>>

\* C. TREE INTERACTION (MarsParticles.tsx:541-564)
treeBranch ==
    /\ hoveredPhoto' = None
    /\ borderVisible' =
         [ph \in Photos |-> IF ph = hoveredPhoto THEN FALSE ELSE borderVisible[ph]]
    /\ IF currentPinch
       THEN /\ targetRotY' = targetRotY + (handNdc[1] - prevHandNdc[1]) * 4
            /\ statusText' = "ROTATING TREE"
            /\ UNCHANGED treeScale
       ELSE /\ treeScale' = ease(treeScale, targetScale(pinchDist), 8, 100)
            /\ statusText' = "PINCH AIR TO ROTATE"
            /\ UNCHANGED targetRotY
    /\ UNCHANGED <<viewingPhoto, parent, pose, isReturning, dummies>>

\* idleBranch clearing the hover as the tree branch does
idleBranchClearsHover ==
    /\ cursorVisible' = FALSE
    /\ statusText' = "WAVE HAND TO START"
    /\ hoveredPhoto' = None
    /\ borderVisible' =
         [ph \in Photos |-> IF ph = hoveredPhoto THEN FALSE ELSE borderVisible[ph]]
    /\ UNCHANGED <<viewingPhoto, parent, pose, isReturning, dummies,
                   targetRotY, treeScale>>

\* idleBranch leaving the cursor as it was
idleBranchCursorKept ==
    /\ statusText' = "WAVE HAND TO START"
    /\ UNCHANGED <<cursorVisible, focusVars, parent, pose, isReturning,
                   borderVisible, dummies, targetRotY, treeScale>>

\* no hand detected (MarsParticles.tsx:566-569)
idleBranch ==
    /\ cursorVisible' = FALSE
    /\ statusText' = "WAVE HAND TO START"
    /\ UNCHANGED <<focusVars, parent, pose, isReturning, borderVisible,
                   dummies, targetRotY, treeScale>>

\* animate (MarsParticles.tsx:450-588), run as the next callback of the
\* frame.  hit is the photo the raycast resolves to (None: a miss); the
\* raycast is only made with a hand detected and nothing focused.
animate(hit) ==
    /\ curRunning # <<>>
    /\ Head(curRunning).fn = "animate"
    /\ hit \in photos \cup {None}
    /\ (~isHandDetected \/ viewingPhoto # None) => hit = None
    /\ isPinching' = currentPinch
    /\ IF isHandDetected
       THEN /\ cursorVisible' = TRUE
            /\ IF viewingPhoto # None THEN viewingBranch
               ELSE IF hit # None THEN hoveringBranch(hit)
               ELSE treeBranch
       ELSE idleBranch
    \* Physics Application
    /\ treeRotY' = ease(treeRotY, targetRotY', 1, 10)
    \* History
    /\ prevHandNdc' = handNdc
    /\ prevPinchDist' = pinchDist
    /\ wasPinching' = currentPinch
    \* a loop started by a flick registered itself before animate does
    /\ rafRunning' = Tail(curRunning)
    /\ rafPending' = curPending
                       \o (IF isHandDetected /\ viewingPhoto # None /\ isFlick
                           THEN <<loopCb(viewingPhoto, 1)>> ELSE <<>>)
                       \o <<animateCb>>
    /\ UNCHANGED <<inputVars, photos, cleanedUp, uncaught, gestureVars>>

(* ------------------------ returnPhotoToTree.loop ---------------------- *)

\* loopComplete without the copy of the recorded pose
loopCompleteNoSnap(photo) ==
    /\ parent' = [parent EXCEPT ![photo] = "tree"]
    /\ pose' = [pose EXCEPT ![photo] = "moved"]
    /\ isReturning' = [isReturning EXCEPT ![photo] = FALSE]
    /\ dummies' = [dummies EXCEPT ![photo] = @ - 1]

\* what loop does once p has reached 1 (MarsParticles.tsx:630-636):
\* treeGroup.attach(photo), the recorded pose copied back, isReturning
\* cleared, the dummy removed
loopComplete(photo) ==
    /\ parent' = [parent EXCEPT ![photo] = "tree"]
    /\ pose' = [pose EXCEPT ![photo] = "original"]
    /\ isReturning' = [isReturning EXCEPT ![photo] = FALSE]
    /\ dummies' = [dummies EXCEPT ![photo] = @ - 1]

\* one requestAnimationFrame call of a returnPhotoToTree closure
\* (MarsParticles.tsx:616-637), run as the next callback of the frame
loop ==
    /\ curRunning # <<>>
    /\ Head(curRunning).fn = "loop"
    /\ LET photo == Head(curRunning).photo
           p == Head(curRunning).p + 1
       IN  IF p < RETURN_STEPS
           THEN /\ pose' = [pose EXCEPT ![photo] = "moved"]
                /\ rafPending' = curPending \o <<loopCb(photo, p)>>
                /\ UNCHANGED <<parent, isReturning, dummies>>
           ELSE /\ loopComplete(photo)
                /\ rafPending' = curPending
    /\ rafRunning' = Tail(curRunning)
    /\ UNCHANGED <<inputVars, historyVars, focusVars, treeVars, photos,
                   borderVisible, viewVars, cleanedUp, uncaught, gestureVars>>

(* ---------------------------- effect cleanup -------------------------- *)

\* the mount effect's cleanup (MarsParticles.tsx:701-706): the resize
\* listener and the canvas are removed, hands is closed and the camera
\* stopped, so onResults is not called again.  No requestAnimationFrame
\* callback is cancelled.
cleanup ==
    /\ ~cleanedUp
    /\ cleanedUp' = TRUE
    /\ UNCHANGED <<inputVars, historyVars, focusVars, treeVars, photoVars,
                   viewVars, rafVars, uncaught, gestureVars>>

(* --------------------------- specification ---------------------------- *)

\* Detector results of the interaction specification.  The thumb and index
\* tips lie on the horizontal line through the image centre, d apart and
\* symmetric about it: pinchDist is d and handNdc is <<0, 0>>.
\*   d =  6 (0.02)    pinching
\*   d = 16 (0.0533)  pinching; a release to 40 has velocity 24 = FLICK_THRESHOLD
\*   d = 40 (0.1333)  not pinching; a release from 6 has velocity 34
\* Frames of 21 landmarks are what the detector documents; 4, 8, 12 and 22
\* are malformed lengths.
PinchDists == {6, 16, 40}
CentredFrame(n, d) == HandFrame(n, <<150 - d \div 2, 150>>, <<150 + d \div 2, 150>>)
Results ==
    {NoHands}
      \cup {<<CentredFrame(21, d)>> : d \in PinchDists}
      \cup {<<CentredFrame(n, 40)>> : n \in {4, 8, 12, 22}}

\* the model follows at most MaxLoops return loops at once
LoopsBounded == Len(LoopsInFlight) <= MaxLoops

Next ==
    \/ createPhotoMesh
    \/ \E r \in Results : onResults(r)
    \/ \E hit \in Photos \cup {None} : animate(hit) /\ LoopsBounded'
    \/ loop
    \/ cleanup

Spec == Init /\ [][Next]_vars

(* ------------- the return animation under frame scheduling ------------ *)

\* The browser keeps running frames: every requestAnimationFrame callback
\* registered is called (MarsParticles.tsx:587-589, 629).  A photo may be
\* focused again while its return is in flight; the model follows a focus
\* only while at most MaxLoops loops are in flight, so that a flick is never
\* held back: up to MaxLoops + 1 loops at once.
FocusBounded == viewingPhoto # None => Len(LoopsInFlight) <= MaxLoops

tick == \E hit \in Photos \cup {None} : animate(hit) /\ FocusBounded'

NextReturn ==
    \/ createPhotoMesh /\ Cardinality(photos') <= FewPhotos
    \/ \E r \in Results : onResults(r)
    \/ tick
    \/ loop
    \/ cleanup

SpecReturn ==
    Init /\ [][NextReturn]_vars /\ WF_vars(tick) /\ WF_vars(loop)

(* --------------------------- the moving tree -------------------------- *)

\* Detector results with the hand off centre and a spread that scales the
\* tree: the thumb and index tips exactly d apart in y (one beside the other
\* when x is odd, which leaves the rounded distance at d), placed so that
\* pinchDist is d and handNdc is <<x, -(d % 2)>>.
\*   d =  6 (0.02)  pinching
\*   d = 45 (0.15)  not pinching, targetScale 1.1; a release from 6 is a flick
\*   x =  3 (0.01)  a move from 0 turns targetRotY by 12, enough for treeRotY
\*                  to follow
ShiftedFrame(n, d, x) ==
    HandFrame(n, <<150 - (x \div 2) - (x % 2), 150 - (d \div 2)>>,
                 <<150 - (x \div 2), 150 - (d \div 2) + d>>)
MotionResults ==
    {NoHands} \cup {<<ShiftedFrame(21, d, x)>> : d \in {6, 45}, x \in {0, 3}}

TreeBounded ==
    /\ targetRotY <= MaxRot /\ -targetRotY <= MaxRot
    /\ treeScale <= MaxScale

NextMotion ==
    \/ createPhotoMesh /\ Cardinality(photos') <= FewPhotos
    \/ \E r \in MotionResults : onResults(r)
    \/ \E hit \in Photos \cup {None} :
          animate(hit) /\ LoopsBounded' /\ TreeBounded'
    \/ loop

SpecMotion == Init /\ [][NextMotion]_vars

\* The tree alone, no photo created: the hand at x = 0, the spread
\*   d =  6 (0.02)  pinching
\*   d = 18 (0.06)  the smallest spread that is not a pinch: targetScale 0.56
\*   d = 45 (0.15)  targetScale 1.1
\*   d = 96 (0.32)  beyond 0.3, where the spread is clamped: targetScale 2.0
ScaleResults ==
    {NoHands} \cup {<<ShiftedFrame(21, d, 0)>> : d \in {6, 18, 45, 96}}

NextScale ==
    \/ \E r \in ScaleResults : onResults(r)
    \/ animate(None)

SpecScale == Init /\ [][NextScale]_vars

(* --------------------- the classifier's specification ----------------- *)

\* a call detectGesture(landmarks)
classify(landmarks) ==
    /\ frame' = landmarks
    /\ gesture' = detectGesture(landmarks)
    /\ UNCHANGED <<inputVars, historyVars, focusVars, treeVars, photoVars,
                   viewVars, rafVars, cleanedUp, uncaught>>

\* Frames of n landmarks: the wrist at <<150, 250>>, middle, ring and pinky
\* PIP joints 50 above it, the other landmarks drawn from a few places.
\* Thumb and index tips are at distance 5, 12 (= 0.04) or further.
GestureFrame(n, thumbIp, thumbTip, indexPip, indexTip, middleTip, ringTip, pinkyTip) ==
    [i \in 1..n |->
        CASE i = WRIST -> <<150, 250>>
          [] i = THUMB_IP -> thumbIp
          [] i = THUMB_TIP -> thumbTip
          [] i = INDEX_PIP -> indexPip
          [] i = INDEX_TIP -> indexTip
          [] i = MIDDLE_TIP -> middleTip
          [] i = RING_TIP -> ringTip
          [] i = PINKY_TIP -> pinkyTip
          [] OTHER -> <<150, 200>>]

TipPlaces == {<<150, 150>>, <<150, 240>>}
FrameLengths == {0, 20, 21, 22}
GestureFrames ==
    {NoFrame} \cup
    { GestureFrame(n, thumbIp, thumbTip, indexPip, indexTip, m, r, k) :
        n \in FrameLengths,
        thumbIp \in {<<150, 220>>, <<150, 190>>},
        thumbTip \in {<<150, 200>>, <<150, 236>>},
        indexPip \in {<<150, 210>>, <<150, 190>>},
        indexTip \in {<<155, 200>>, <<162, 200>>, <<155, 236>>, <<150, 120>>},
        m \in TipPlaces, r \in TipPlaces, k \in TipPlaces }

NextGesture == \E f \in GestureFrames : classify(f)

SpecGesture == Init /\ [][NextGesture]_vars

(* ------------------------------ claims -------------------------------- *)

\* C1: focusedItem (viewingPhoto) and hoveredItem (hoveredPhoto) are never
\* both set to the same photo.
C1_FocusHoverExclusive ==
    ~(viewingPhoto # None /\ hoveredPhoto = viewingPhoto)

\* C2: whenever a photo is focused, its parent is the scene, not the tree.
C2_FocusedOwnedByScene ==
    viewingPhoto # None => parent[viewingPhoto] = "scene"

\* C3: no step makes viewingPhoto a photo whose isReturning flag is set.
C3_NoFocusWhileReturning ==
    [][(viewingPhoto' # None /\ viewingPhoto' # viewingPhoto)
          => ~isReturning[viewingPhoto']]_vars

\* C4: an animate tick with a hand detected, a photo focused, the hand not
\* pinching and pinchDist - prevPinchDist > FLICK_THRESHOLD clears the
\* focus, sets the photo's isReturning and sets the status "RETURNING..."
\* (when the loop it starts is within the model's bound); "RETURNING..." is
\* set by no other tick, so the tick after it, which finds no focus, sets
\* another status; and the loop call that completes a return leaves the
\* photo at its recorded pose.
C4_FlickDismiss ==
    [][ /\ \A hit \in Photos \cup {None} :
             animate(hit) =>
               /\ ( /\ isHandDetected /\ viewingPhoto # None
                    /\ pinchDist >= PINCH_THRESHOLD
                    /\ pinchDist - prevPinchDist > FLICK_THRESHOLD )
                  => ( /\ viewingPhoto' = None
                       /\ isReturning'[viewingPhoto]
                       /\ statusText' = "RETURNING..." )
               /\ statusText' = "RETURNING..."
                  => ( /\ isHandDetected /\ viewingPhoto # None
                       /\ pinchDist >= PINCH_THRESHOLD
                       /\ pinchDist - prevPinchDist > FLICK_THRESHOLD
                       /\ viewingPhoto' = None )
               /\ statusText = "RETURNING..." => statusText' # "RETURNING..."
        /\ (loop /\ Head(curRunning).p + 1 >= RETURN_STEPS)
             => pose'[Head(curRunning).photo] = "original"
      ]_vars

\* C4 witness: the state a flick leaves: status "RETURNING...", no focus, a
\* photo in flight off the tree with its return loop scheduled.
C4_Witness ==
    /\ statusText = "RETURNING..." /\ viewingPhoto = None
    /\ \E ph \in photos :
         /\ isReturning[ph] /\ parent[ph] = "scene" /\ pose[ph] = "moved"
         /\ Len(LoopsOf(ph)) = 1

\* C5: an animate tick with a hand detected, nothing focused and a hit on
\* photo X focuses X, hands X to the scene and sets "OPENING..." if the
\* hand pinches now and did not on the previous tick; otherwise the focus
\* stays none and the status is "PINCH TO OPEN".
C5_PinchToOpen ==
    [][ \A X \in Photos :
          (animate(X) /\ isHandDetected /\ viewingPhoto = None) =>
             IF pinchDist < PINCH_THRESHOLD /\ ~wasPinching
             THEN /\ viewingPhoto' = X /\ parent'[X] = "scene"
                  /\ statusText' = "OPENING..."
             ELSE /\ viewingPhoto' = None
                  /\ statusText' = "PINCH TO OPEN"
      ]_vars

\* C5 witness: a photo just opened: focused, owned by the scene, the pinch
\* new on that tick.
C5_Witness ==
    /\ statusText = "OPENING..." /\ viewingPhoto # None
    /\ parent[viewingPhoto] = "scene"
    /\ wasPinching /\ isHandDetected

\* C6: the loop call that completes a return leaves the photo a child of
\* the tree, at its recorded pose, with isReturning false and that loop's
\* dummy removed from the tree.
C6_ReturnRoundTrip ==
    [][ (loop /\ Head(curRunning).p + 1 >= RETURN_STEPS) =>
           LET ph == Head(curRunning).photo
           IN  /\ parent'[ph] = "tree"
               /\ pose'[ph] = "original"
               /\ ~isReturning'[ph]
               /\ dummies'[ph] = dummies[ph] - 1
      ]_vars

\* C6 witness: a photo back on the tree after a return.  A hovered photo
\* with a hidden border has been dismissed (only returnPhotoToTree hides the
\* border of the hovered photo), and only a completed return puts it back
\* on the tree.
C6_Witness ==
    \E ph \in photos :
        /\ hoveredPhoto = ph /\ ~borderVisible[ph] /\ viewingPhoto = None
        /\ parent[ph] = "tree" /\ pose[ph] = "original"
        /\ ~isReturning[ph] /\ dummies[ph] = 0 /\ LoopsInFlight = <<>>

\* C7: an animate tick without a detected hand sets the status
\* "WAVE HAND TO START" and hides the cursor, whatever the focus, hover and
\* pinch state.
C7_HandAbsent ==
    [][ \A hit \in Photos \cup {None} :
          (animate(hit) /\ ~isHandDetected) =>
             (statusText' = "WAVE HAND TO START" /\ ~cursorVisible')
      ]_vars

\* C7 witness: after an idle tick, with a photo focused and the hand last
\* seen pinching.
C7_Witness ==
    /\ statusText = "WAVE HAND TO START" /\ ~cursorVisible /\ ~isHandDetected
    /\ viewingPhoto # None /\ wasPinching

\* C8: a detector result whose frame does not have exactly 21 landmarks is
\* taken as no hand (isHandDetected false, pinchDist and handNdc as they
\* were) and raises nothing.
C8_MalformedIsNoHand ==
    [][ \A r \in Results :
          (onResults(r) /\ Len(r) > 0 /\ Len(r[1]) # 21) =>
             /\ isHandDetected' = FALSE
             /\ pinchDist' = pinchDist /\ handNdc' = handNdc
             /\ uncaught' = FALSE
      ]_vars

\* C9: once the cleanup has run, no step changes a photo, the focus, the
\* hover or the tree.
C9_NothingAfterCleanup ==
    [][ cleanedUp => UNCHANGED <<photoVars, focusVars, treeVars>> ]_vars

\* C10: a frame of 21 landmarks whose thumb tip and index tip are less than
\* 0.04 apart in x, y is classified PINCH, whatever the fingers' extension.
C10_PinchPriority ==
    ( /\ frame # NoFrame /\ Len(frame) = 21
      /\ distanceSq(frame[THUMB_TIP], frame[INDEX_TIP]) < GESTURE_PINCH_SQ )
      => gesture = "PINCH"

\* C10 witness: a pinching frame whose four fingers are all curled (the
\* FIST shape) and whose thumb is extended, classified PINCH.
C10_Witness ==
    /\ frame # NoFrame /\ Len(frame) = 21
    /\ distanceSq(frame[THUMB_TIP], frame[INDEX_TIP]) < GESTURE_PINCH_SQ
    /\ isFingerExtended(frame, THUMB_TIP, THUMB_IP)
    /\ ~isFingerExtended(frame, INDEX_TIP, INDEX_PIP)
    /\ ~isFingerExtended(frame, MIDDLE_TIP, MIDDLE_PIP)
    /\ ~isFingerExtended(frame, RING_TIP, RING_PIP)
    /\ ~isFingerExtended(frame, PINKY_TIP, PINKY_PIP)
    /\ gesture = "PINCH"

\* C11: a frame of 21 landmarks whose thumb tip and index tip are at least
\* 0.04 apart, whose thumb is extended and whose index, middle, ring and
\* pinky fingers are all non-extended is classified THUMB_UP.
C11_ThumbUp ==
    ( /\ frame # NoFrame /\ Len(frame) = 21
      /\ distanceSq(frame[THUMB_TIP], frame[INDEX_TIP]) >= GESTURE_PINCH_SQ
      /\ isFingerExtended(frame, THUMB_TIP, THUMB_IP)
      /\ ~isFingerExtended(frame, INDEX_TIP, INDEX_PIP)
      /\ ~isFingerExtended(frame, MIDDLE_TIP, MIDDLE_PIP)
      /\ ~isFingerExtended(frame, RING_TIP, RING_PIP)
      /\ ~isFingerExtended(frame, PINKY_TIP, PINKY_PIP) )
      => gesture = "THUMB_UP"

\* C12: an absent frame and a frame of fewer than 21 landmarks are
\* classified NONE.
C12_ShortOrAbsentIsNone ==
    (frame = NoFrame \/ Len(frame) < 21) => gesture = "NONE"

\* C12 witness: a classified frame of 20 landmarks whose thumb tip and index
\* tip, both present, are closer than 0.04.
C12_Witness ==
    /\ frame # NoFrame /\ Len(frame) = 20
    /\ distanceSq(frame[THUMB_TIP], frame[INDEX_TIP]) < GESTURE_PINCH_SQ
    /\ gesture = "NONE"

\* C13: a frame of more than 21 landmarks is classified NONE.
C13_LongIsNone ==
    (frame # NoFrame /\ Len(frame) > 21) => gesture = "NONE"

\* C15: a frame of 21 landmarks whose thumb tip and index tip are at least
\* 0.04 apart is classified by its index, middle, ring and pinky fingers
\* alone: FIST when none is extended, POINTING when only the index is,
\* OPEN_PALM when all four are, NONE otherwise; the thumb's extension has no
\* part in the result.
C15_FirstMatch ==
    ( /\ frame # NoFrame /\ Len(frame) = 21
      /\ distanceSq(frame[THUMB_TIP], frame[INDEX_TIP]) >= GESTURE_PINCH_SQ )
      => LET i == isFingerExtended(frame, INDEX_TIP, INDEX_PIP)
             m == isFingerExtended(frame, MIDDLE_TIP, MIDDLE_PIP)
             r == isFingerExtended(frame, RING_TIP, RING_PIP)
             k == isFingerExtended(frame, PINKY_TIP, PINKY_PIP)
         IN  gesture = CASE ~i /\ ~m /\ ~r /\ ~k -> "FIST"
                         [] i /\ ~m /\ ~r /\ ~k -> "POINTING"
                         [] i /\ m /\ r /\ k -> "OPEN_PALM"
                         [] OTHER -> "NONE"

\* C15 witness: a non-pinching frame of 21 landmarks with the thumb
\* extended and the four fingers curled, classified FIST.
C15_Witness ==
    /\ frame # NoFrame /\ Len(frame) = 21
    /\ distanceSq(frame[THUMB_TIP], frame[INDEX_TIP]) >= GESTURE_PINCH_SQ
    /\ isFingerExtended(frame, THUMB_TIP, THUMB_IP)
    /\ ~isFingerExtended(frame, INDEX_TIP, INDEX_PIP)
    /\ ~isFingerExtended(frame, MIDDLE_TIP, MIDDLE_PIP)
    /\ ~isFingerExtended(frame, RING_TIP, RING_PIP)
    /\ ~isFingerExtended(frame, PINKY_TIP, PINKY_PIP)
    /\ gesture = "FIST"

\* C16: a return loop advances its progress by one step of 0.05 on every
\* call and is always below the 20th step while scheduled; the 20th call
\* completes it, clearing isReturning and handing the photo to the tree; no
\* other step (animate with or without a hand, a detector result, cleanup)
\* changes the progress of a loop in flight; and, with the browser running
\* every registered callback, a photo whose isReturning is set eventually
\* has isReturning false and the tree as parent.
C16_ReturnTerminates ==
    /\ [](\A i \in 1..Len(LoopsInFlight) :
             LoopsInFlight[i].p \in 1..(RETURN_STEPS - 1))
    /\ [][ IF loop
           THEN LET cb == Head(LoopsInFlight)
                IN  IF cb.p + 1 < RETURN_STEPS
                    THEN LoopsInFlight' =
                           Tail(LoopsInFlight) \o <<[cb EXCEPT !.p = cb.p + 1]>>
                    ELSE /\ LoopsInFlight' = Tail(LoopsInFlight)
                         /\ ~isReturning'[cb.photo]
                         /\ parent'[cb.photo] = "tree"
           ELSE SubSeq(LoopsInFlight', 1, Len(LoopsInFlight)) = LoopsInFlight
         ]_vars
    /\ \A ph \in Photos :
         (ph \in photos /\ isReturning[ph])
            ~> (~isReturning[ph] /\ parent[ph] = "tree")

\* C16 witness: a return one call from completion while no hand is
\* detected.
C16_Witness ==
    /\ ~isHandDetected
    /\ \E i \in 1..Len(LoopsInFlight) :
         /\ LoopsInFlight[i].p = RETURN_STEPS - 1
         /\ isReturning[LoopsInFlight[i].photo]
         /\ parent[LoopsInFlight[i].photo] = "scene"

\* C17 as stated: on every animate tick that finds a photo focused no hit
\* test is made, hoveredPhoto, targetRotY and treeScale are left unchanged,
\* the focus stays or is cleared, and the status set is "RETURNING..." or
\* "FLICK TO DISMISS".
C17_FocusedTickStatus ==
    [][ \A hit \in Photos \cup {None} :
          (animate(hit) /\ viewingPhoto # None) =>
             /\ hit = None
             /\ UNCHANGED <<hoveredPhoto, targetRotY, treeScale>>
             /\ viewingPhoto' \in {viewingPhoto, None}
             /\ statusText' \in {"RETURNING...", "FLICK TO DISMISS"}
      ]_vars

\* C17, amended: on every animate tick that finds a photo focused no hit
\* test is made and hoveredPhoto, targetRotY and treeScale are left
\* unchanged; the focus is cleared exactly when a hand is detected and the
\* tick sees a flick, and otherwise stays; with a hand detected the status
\* set is "RETURNING..." on the flick and "FLICK TO DISMISS" otherwise, and
\* without a hand it is "WAVE HAND TO START".  No step of any kind replaces
\* a focused photo by another photo.
C17_ExclusiveFocus ==
    [][ /\ \A hit \in Photos \cup {None} :
             (animate(hit) /\ viewingPhoto # None) =>
                LET flick == /\ isHandDetected
                             /\ pinchDist >= PINCH_THRESHOLD
                             /\ pinchDist - prevPinchDist > FLICK_THRESHOLD
                IN  /\ hit = None
                    /\ UNCHANGED <<hoveredPhoto, targetRotY, treeScale>>
                    /\ viewingPhoto' = IF flick THEN None ELSE viewingPhoto
                    /\ statusText' =
                         IF ~isHandDetected THEN "WAVE HAND TO START"
                         ELSE IF flick THEN "RETURNING..."
                         ELSE "FLICK TO DISMISS"
        /\ viewingPhoto # None => viewingPhoto' \in {viewingPhoto, None}
      ]_vars

\* C17 witness: after a focused tick with a hand detected whose spread would
\* have scaled the tree (pinchDist not pinching, the same as on the tick
\* before, treeScale away from its targetScale) and whose hand had moved
\* off centre.
C17_Witness ==
    /\ viewingPhoto # None /\ isHandDetected
    /\ statusText = "FLICK TO DISMISS"
    /\ pinchDist >= PINCH_THRESHOLD /\ prevPinchDist = pinchDist
    /\ treeScale # targetScale(pinchDist)
    /\ prevHandNdc = handNdc /\ handNdc[1] # 0

\* C18: an animate tick with a hand detected, nothing focused, no hit and
\* the hand pinching adds to targetRotY 4 times (handNdc.x - prevHandNdc.x),
\* leaves treeScale unchanged, clears hoveredPhoto and sets "ROTATING TREE".
C18_RotateBranch ==
    [][ ( /\ animate(None) /\ isHandDetected /\ viewingPhoto = None
          /\ pinchDist < PINCH_THRESHOLD )
          => /\ targetRotY' - targetRotY = 4 * (handNdc[1] - prevHandNdc[1])
             /\ treeScale' = treeScale
             /\ hoveredPhoto' = None
             /\ statusText' = "ROTATING TREE"
      ]_vars

\* C18 witness: the tree turned by a pinching hand that moved, on a tick
\* that left a scaled tree's scale alone, with a photo present and nothing
\* hovered.
C18_Witness ==
    /\ statusText = "ROTATING TREE" /\ isHandDetected /\ wasPinching
    /\ targetRotY # 0 /\ treeScale # INITIAL_SCALE
    /\ photos # {} /\ hoveredPhoto = None /\ viewingPhoto = None

\* C19: an animate tick with a hand detected, nothing focused, no hit and
\* the hand not pinching takes the target scale
\* 0.5 + clamp((pinchDist - 0.05) / 0.25, 0, 1) * 1.5 (1.1 for 0.15), moves
\* treeScale toward it by 0.08 of the difference (rounded toward zero on the
\* 1/10000 grid), leaves targetRotY unchanged and sets
\* "PINCH AIR TO ROTATE".
C19_ScaleBranch ==
    [][ ( /\ animate(None) /\ isHandDetected /\ viewingPhoto = None
          /\ pinchDist >= PINCH_THRESHOLD )
          => LET spread == IF pinchDist <= 15 THEN 0
                           ELSE IF pinchDist >= 90 THEN 75
                           ELSE pinchDist - 15
                 target == 5000 + (spread * 15000) \div 75
                 diff == target - treeScale
                 step == IF diff >= 0 THEN (diff * 8) \div 100
                         ELSE -((-diff * 8) \div 100)
             IN  /\ pinchDist = 45 => target = 11000
                 /\ treeScale' = treeScale + step
                 /\ targetRotY' = targetRotY
                 /\ statusText' = "PINCH AIR TO ROTATE"
      ]_vars

\* C19 witness: after a scale tick whose spread was beyond 0.3, with the
\* tree scaled past the 1.1 that a spread of 0.15 aims at and not past 2.0.
C19_Witness ==
    /\ statusText = "PINCH AIR TO ROTATE" /\ isHandDetected
    /\ prevPinchDist = 96
    /\ treeScale > 11000 /\ treeScale <= 20000

\* C20: an animate tick with a hand detected, nothing focused and a hit
\* makes the hit photo the hovered photo with its border visible and hides
\* the border of a different photo hovered before; such a tick without a hit
\* clears hoveredPhoto and hides the border of the photo hovered before; and
\* in every reachable state a border is visible only on the hovered photo,
\* so on at most one photo.
C20_SingleHighlight ==
    /\ [][ \A hit \in Photos \cup {None} :
             (animate(hit) /\ isHandDetected /\ viewingPhoto = None) =>
                /\ hoveredPhoto' = hit
                /\ hit # None => borderVisible'[hit]
                /\ (hoveredPhoto # None /\ hoveredPhoto # hit)
                      => ~borderVisible'[hoveredPhoto]
         ]_vars
    /\ [](\A ph \in Photos : borderVisible[ph] => hoveredPhoto = ph)
    /\ [](Cardinality({ph \in Photos : borderVisible[ph]}) <= 1)

\* C20 witness: the second photo hovered with its border visible while the
\* first, hovered and opened before (it is off the tree), has its border
\* hidden.
C20_Witness ==
    /\ hoveredPhoto = 2 /\ borderVisible[2] /\ viewingPhoto = None
    /\ 1 \in photos /\ ~borderVisible[1] /\ parent[1] = "scene"

C22_StaleTickInert ==
    [][ /\ \A hit \in Photos \cup {None} :
             animate(hit) =>
               /\ prevPinchDist' = pinchDist'
               /\ prevHandNdc' = handNdc'
               /\ wasPinching' = (pinchDist' < PINCH_THRESHOLD)
               /\ ( /\ prevPinchDist = pinchDist /\ prevHandNdc = handNdc
                    /\ wasPinching = (pinchDist < PINCH_THRESHOLD) )
                  => /\ viewingPhoto' = viewingPhoto
                     /\ targetRotY' = targetRotY
                     /\ LoopsInFlight' = LoopsInFlight
        /\ (UNCHANGED inputVars)
             \/ (UNCHANGED <<prevPinchDist, prevHandNdc, wasPinching>>)
        /\ (UNCHANGED <<prevPinchDist, prevHandNdc, wasPinching>>)
             \/ ( /\ prevPinchDist' = pinchDist /\ prevHandNdc' = handNdc
                  /\ wasPinching' = (pinchDist < PINCH_THRESHOLD) )
      ]_vars

\* C22 witness: after two ticks on one detector result: a pinching hand,
\* moved off centre, resting on a hovered photo that the pinch did not open,
\* the previous-frame fields equal to the inputs.
C22_Witness ==
    /\ isHandDetected /\ viewingPhoto = None /\ hoveredPhoto # None
    /\ statusText = "PINCH TO OPEN"
    /\ pinchDist < PINCH_THRESHOLD /\ wasPinching /\ isPinching
    /\ prevPinchDist = pinchDist /\ prevHandNdc = handNdc /\ handNdc[1] # 0

\* C23: at any time at most one return loop is in flight for a photo, and
\* the photo's isReturning is true exactly while one is.
C23_OneLoopPerPhoto ==
    \A ph \in Photos :
        /\ Len(LoopsOf(ph)) <= 1
        /\ isReturning[ph] <=> (Len(LoopsOf(ph)) > 0)

\* C24: in every reachable state treeScale lies in [0.5, 2.0].
C24_TreeScaleInRange ==
    treeScale >= 5000 /\ treeScale <= 20000

\* C24 witness: the tree shrunk from 1.0 to within 0.01 of 0.56, the target
\* of the smallest spread that is not a pinch, by scale ticks.
C24_Witness ==
    /\ statusText = "PINCH AIR TO ROTATE" /\ isHandDetected
    /\ prevPinchDist = PINCH_THRESHOLD
    /\ treeScale <= 5700

=============================================================================
